---- MODULE Spec2Model ----
(***************************************************************************)
(* A model of the ledger of shevchenko-nikita/my_blockchain: blocks        *)
(* (types/block.rs), transactions (types/transaction.rs) and the           *)
(* Blockchain with its account table (types/blockchain.rs).                *)
(*                                                                         *)
(* Option<T> is a sequence of length at most one: None is << >> and        *)
(* Some(x) is <<x>>.  A Blake2s digest is modelled by the tuple of the     *)
(* values that are fed to the hasher, i.e. the digest is taken to be       *)
(* collision free; fields that are not fed to the hasher (a transaction's  *)
(* signature, a block's stored hash) are not part of it.                   *)
(***************************************************************************)
EXTENDS Integers, Sequences, FiniteSets, TLC

(***************************************************************************)
(* Bounds of the model.                                                    *)
(***************************************************************************)
MaxChain == 2       \* append_block is not called once the chain is this long
MaxTxs == 3         \* add_transaction is not called on a block this long
MaxValidated == 3   \* MaxChain of the specification that calls validate
MaxValidatedTxs == 2  \* MaxTxs of the specification that calls validate
MaxNonce == 1       \* set_nonce draws its argument from 1..MaxNonce
BalanceBits == 2    \* width of Balance in the model (u128 in the source)

BalanceMod == 2 ^ BalanceBits
AccountIds == {"satoshi", "alice", "bob"}
Amounts == {1, BalanceMod - 1}
Nonces == 1 .. MaxNonce

None == << >>
Some(x) == <<x>>

VARIABLES
    blocks,            \* Blockchain.blocks, newest block first
    accounts,          \* Blockchain.accounts: AccountId -> Account
    transaction_pool,  \* Blockchain.transaction_pool
    overflow_checks,   \* whether the build panics on integer overflow
    block,             \* the block the caller holds: None or Some(Block)
    last,              \* the last call on the Blockchain and what it returned
    tampered,          \* whether a block of the chain was written to in place
    appended           \* history: the number of append_block calls that returned
                       \* Ok and the stored hash of the block of the last one

vars == <<blocks, accounts, transaction_pool, overflow_checks, block, last,
          tampered, appended>>

(***************************************************************************)
(* types/account.rs                                                        *)
(***************************************************************************)
\* Account::new: account.rs holds the struct alone; a new account holds the
\* given type and a balance of 0.
AccountNew(account_type) == [account_type |-> account_type, balance |-> 0]

(***************************************************************************)
(* types/transaction.rs                                                    *)
(***************************************************************************)
CreateAccount(id) == [kind |-> "CreateAccount", to |-> id, amount |-> 0]
MintInitialSupply(to, amount) ==
    [kind |-> "MintInitialSupply", to |-> to, amount |-> amount]
Transfer(to, amount) == [kind |-> "Transfer", to |-> to, amount |-> amount]

TransactionNew(data, from) ==
    [nonce |-> 0, timestamp |-> 0, data |-> data, from |-> from,
     signature |-> None]

\* Hashable for Transaction: the digest of (nonce, timestamp, from, data).
TransactionHash(tx) == <<tx.nonce, tx.timestamp, tx.from, tx.data>>

(***************************************************************************)
(* WorldState for Blockchain (types/blockchain.rs)                         *)
(***************************************************************************)
\* create_account that inserts over an occupied entry.
create_accountOverwrite(accts, account_id, account_type) ==
    [res |-> "Ok",
     accounts |-> [a \in DOMAIN accts \cup {account_id} |->
                      IF a = account_id THEN AccountNew("User") ELSE accts[a]]]

create_account(accts, account_id, account_type) ==
    IF account_id \in DOMAIN accts
    THEN [res |-> "Account id already exist: " \o account_id, accounts |-> accts]
    ELSE [res |-> "Ok",
          accounts |-> [a \in DOMAIN accts \cup {account_id} |->
                           IF a = account_id THEN AccountNew("User")
                           ELSE accts[a]]]

get_account_by_id(accts, account_id) ==
    IF account_id \in DOMAIN accts THEN Some(accts[account_id]) ELSE None

\* balance = amount in place of balance += amount.
AddBalanceAssign(balance, amount, checks) == [res |-> "Ok", balance |-> amount]

\* balance += amount on a u128: the sum when it fits; otherwise a panic in a
\* build with overflow checks and the wrapped sum in a build without them.
AddBalance(balance, amount, checks) ==
    IF balance + amount < BalanceMod
    THEN [res |-> "Ok", balance |-> balance + amount]
    ELSE IF checks
         THEN [res |-> "panic", balance |-> balance]
         ELSE [res |-> "Ok", balance |-> (balance + amount) % BalanceMod]

\* execute that takes a Transfer for done.
ExecuteTransferOk(tx, accts, is_genesis, checks) ==
    IF tx.data.kind = "CreateAccount"
    THEN create_account(accts, tx.data.to, "User")
    ELSE IF tx.data.kind = "MintInitialSupply"
    THEN IF ~is_genesis
         THEN [res |-> "Initial supply can't be minted in initial block",
               accounts |-> accts]
         ELSE IF get_account_by_id(accts, tx.data.to) = None
              THEN [res |-> "Invalid account", accounts |-> accts]
              ELSE LET s == AddBalance(accts[tx.data.to].balance,
                                       tx.data.amount, checks)
                   IN [res |-> s.res,
                       accounts |-> [accts EXCEPT
                                       ![tx.data.to].balance = s.balance]]
    ELSE [res |-> "Ok", accounts |-> accts]

\* execute whose mint inserts a missing account.
ExecuteMintCreates(tx, accts, is_genesis, checks) ==
    IF tx.data.kind = "CreateAccount"
    THEN create_account(accts, tx.data.to, "User")
    ELSE IF tx.data.kind = "MintInitialSupply"
    THEN IF ~is_genesis
         THEN [res |-> "Initial supply can't be minted in initial block",
               accounts |-> accts]
         ELSE LET old == IF tx.data.to \in DOMAIN accts
                         THEN accts[tx.data.to].balance ELSE 0
                  s == AddBalance(old, tx.data.amount, checks)
              IN [res |-> s.res,
                  accounts |-> [a \in DOMAIN accts \cup {tx.data.to} |->
                                  IF a = tx.data.to
                                  THEN [account_type |-> "User",
                                        balance |-> s.balance]
                                  ELSE accts[a]]]
    ELSE [res |-> "Unknown transaction", accounts |-> accts]

\* execute that mints in any block.
ExecuteMintAnywhere(tx, accts, is_genesis, checks) ==
    IF tx.data.kind = "CreateAccount"
    THEN create_account(accts, tx.data.to, "User")
    ELSE IF tx.data.kind = "MintInitialSupply"
    THEN IF get_account_by_id(accts, tx.data.to) = None
         THEN [res |-> "Invalid account", accounts |-> accts]
         ELSE LET s == AddBalance(accts[tx.data.to].balance, tx.data.amount, checks)
              IN [res |-> s.res,
                  accounts |-> [accts EXCEPT ![tx.data.to].balance = s.balance]]
    ELSE [res |-> "Unknown transaction", accounts |-> accts]

\* Transaction::execute: the result and the account table it leaves.
Execute(tx, accts, is_genesis, checks) ==
    IF tx.data.kind = "CreateAccount"
    THEN create_account(accts, tx.data.to, "User")
    ELSE IF tx.data.kind = "MintInitialSupply"
    THEN IF ~is_genesis
         THEN [res |-> "Initial supply can't be minted in initial block",
               accounts |-> accts]
         ELSE IF get_account_by_id(accts, tx.data.to) = None
              THEN [res |-> "Invalid account", accounts |-> accts]
              ELSE LET s == AddBalance(accts[tx.data.to].balance,
                                       tx.data.amount, checks)
                   IN [res |-> s.res,
                       accounts |-> [accts EXCEPT
                                       ![tx.data.to].balance = s.balance]]
    ELSE [res |-> "Unknown transaction", accounts |-> accts]

(***************************************************************************)
(* types/block.rs                                                          *)
(***************************************************************************)
\* Hashable for Block: the digest of (prev_hash, nonce) followed by the
\* hash of every transaction in order.
BlockHash(b) ==
    <<b.prev_hash, b.nonce,
      [i \in 1 .. Len(b.transactions) |-> TransactionHash(b.transactions[i])]>>

update_hash(b) == [b EXCEPT !.hash = Some(BlockHash(b))]

BlockDefault ==
    [nonce |-> 0, hash |-> None, prev_hash |-> None, transactions |-> << >>]

BlockNew(prev_hash) == update_hash([BlockDefault EXCEPT !.prev_hash = prev_hash])

\* verify that only asks for a stored hash.
verifyStoredOnly(b) == b.hash # None

verify(b) == b.hash # None /\ b.hash[1] = BlockHash(b)

set_nonce(b, nonce) == update_hash([b EXCEPT !.nonce = nonce])

\* add_transaction that leaves the stored hash as it was.
add_transactionNoUpdate(b, transaction) ==
    [b EXCEPT !.transactions = Append(@, transaction)]

add_transaction(b, transaction) ==
    update_hash([b EXCEPT !.transactions = Append(@, transaction)])

(***************************************************************************)
(* types/chain.rs: Chain<Block>, newest first                              *)
(***************************************************************************)
\* append puts a block at the head, head is the block appended last and the
\* iteration runs from the head to the oldest block.
ChainAppend(chain, b) == <<b>> \o chain
ChainLen(chain) == Len(chain)
ChainHead(chain) == IF Len(chain) = 0 THEN None ELSE Some(chain[1])

(***************************************************************************)
(* types/blockchain.rs                                                     *)
(***************************************************************************)
\* The loop of append_block going on after a failure and keeping the last
\* error.
RECURSIVE ExecuteFromKeepGoing(_, _, _, _, _)
ExecuteFromKeepGoing(txs, i, accts, is_genesis, checks) ==
    IF i > Len(txs)
    THEN [res |-> "Ok", accounts |-> accts]
    ELSE LET r == Execute(txs[i], accts, is_genesis, checks)
             rest == ExecuteFromKeepGoing(txs, i + 1, r.accounts, is_genesis,
                                          checks)
         IN IF r.res = "Ok" \/ rest.res # "Ok" THEN rest ELSE r

\* The loop of append_block over block.transactions from position i on:
\* the first result that is not Ok ends it.
RECURSIVE ExecuteFrom(_, _, _, _, _)
ExecuteFrom(txs, i, accts, is_genesis, checks) ==
    IF i > Len(txs)
    THEN [res |-> "Ok", accounts |-> accts]
    ELSE LET r == Execute(txs[i], accts, is_genesis, checks)
         IN IF r.res = "Ok"
            THEN ExecuteFrom(txs, i + 1, r.accounts, is_genesis, checks)
            ELSE r

\* append_block that restores an empty table in place of the backup.
AppendBlockResultRollbackToEmpty(chain, accts, b, checks) ==
    IF ~verify(b)
    THEN [ret |-> "Block has invalid hash", blocks |-> chain, accounts |-> accts]
    ELSE IF Len(b.transactions) = 0
    THEN [ret |-> "Block has not any transactions",
          blocks |-> chain, accounts |-> accts]
    ELSE LET r == ExecuteFrom(b.transactions, 1, accts, ChainLen(chain) = 0, checks)
         IN IF r.res = "Ok"
            THEN [ret |-> "Ok", blocks |-> ChainAppend(chain, b),
                  accounts |-> r.accounts]
            ELSE IF r.res = "panic"
            THEN [ret |-> "panic", blocks |-> chain, accounts |-> r.accounts]
            ELSE [ret |-> "Error during tx execution: " \o r.res,
                  blocks |-> chain, accounts |-> << >>]

\* append_block that takes the second block for a genesis block too.
AppendBlockResultGenesisOffByOne(chain, accts, b, checks) ==
    IF ~verify(b)
    THEN [ret |-> "Block has invalid hash", blocks |-> chain, accounts |-> accts]
    ELSE IF Len(b.transactions) = 0
    THEN [ret |-> "Block has not any transactions",
          blocks |-> chain, accounts |-> accts]
    ELSE LET r == ExecuteFrom(b.transactions, 1, accts, ChainLen(chain) <= 1, checks)
         IN IF r.res = "Ok"
            THEN [ret |-> "Ok", blocks |-> ChainAppend(chain, b),
                  accounts |-> r.accounts]
            ELSE IF r.res = "panic"
            THEN [ret |-> "panic", blocks |-> chain, accounts |-> r.accounts]
            ELSE [ret |-> "Error during tx execution: " \o r.res,
                  blocks |-> chain, accounts |-> accts]

\* append_block that puts the block on the chain before it executes it.
AppendBlockResultAppendFirst(chain, accts, b, checks) ==
    IF ~verify(b)
    THEN [ret |-> "Block has invalid hash", blocks |-> chain, accounts |-> accts]
    ELSE IF Len(b.transactions) = 0
    THEN [ret |-> "Block has not any transactions",
          blocks |-> chain, accounts |-> accts]
    ELSE LET r == ExecuteFrom(b.transactions, 1, accts, ChainLen(chain) = 0, checks)
         IN IF r.res = "Ok"
            THEN [ret |-> "Ok", blocks |-> ChainAppend(chain, b),
                  accounts |-> r.accounts]
            ELSE IF r.res = "panic"
            THEN [ret |-> "panic", blocks |-> ChainAppend(chain, b),
                  accounts |-> r.accounts]
            ELSE [ret |-> "Error during tx execution: " \o r.res,
                  blocks |-> ChainAppend(chain, b), accounts |-> accts]

\* append_block that keeps the account table of a failed block.
AppendBlockResultNoRollback(chain, accts, b, checks) ==
    IF ~verify(b)
    THEN [ret |-> "Block has invalid hash", blocks |-> chain, accounts |-> accts]
    ELSE IF Len(b.transactions) = 0
    THEN [ret |-> "Block has not any transactions",
          blocks |-> chain, accounts |-> accts]
    ELSE LET r == ExecuteFrom(b.transactions, 1, accts, ChainLen(chain) = 0, checks)
         IN IF r.res = "Ok"
            THEN [ret |-> "Ok", blocks |-> ChainAppend(chain, b),
                  accounts |-> r.accounts]
            ELSE IF r.res = "panic"
            THEN [ret |-> "panic", blocks |-> chain, accounts |-> r.accounts]
            ELSE [ret |-> "Error during tx execution: " \o r.res,
                  blocks |-> chain, accounts |-> r.accounts]

\* Blockchain::append_block on (chain, accts): what it returns and the chain
\* and account table it leaves.  A panic leaves the table as it was when the
\* addition overflowed.
AppendBlockResult(chain, accts, b, checks) ==
    IF ~verify(b)
    THEN [ret |-> "Block has invalid hash", blocks |-> chain, accounts |-> accts]
    ELSE LET is_genesis == ChainLen(chain) = 0
         IN IF Len(b.transactions) = 0
            THEN [ret |-> "Block has not any transactions",
                  blocks |-> chain, accounts |-> accts]
            ELSE LET accounts_backup == accts
                     r == ExecuteFrom(b.transactions, 1, accts, is_genesis, checks)
                 IN IF r.res = "Ok"
                    THEN [ret |-> "Ok", blocks |-> ChainAppend(chain, b),
                          accounts |-> r.accounts]
                    ELSE IF r.res = "panic"
                    THEN [ret |-> "panic", blocks |-> chain,
                          accounts |-> r.accounts]
                    ELSE [ret |-> "Error during tx execution: " \o r.res,
                          blocks |-> chain, accounts |-> accounts_backup]

\* get_last_block_hash that reads the other end of the chain.
get_last_block_hashOldest(chain) ==
    IF Len(chain) = 0 THEN None ELSE Some(BlockHash(chain[Len(chain)]))

\* Blockchain::get_last_block_hash
get_last_block_hash(chain) ==
    IF ChainHead(chain) = None THEN None ELSE Some(BlockHash(ChainHead(chain)[1]))

\* The loop of validate without the call of block.verify().
RECURSIVE ValidateFromNoVerify(_, _, _, _)
ValidateFromNoVerify(chain, i, block_num, prev_block_hash) ==
    IF i > Len(chain)
    THEN "Ok"
    ELSE LET b == chain[i]
             is_genesis == block_num = 1
         IN IF ~is_genesis /\ b.prev_hash = None
            THEN "Block " \o ToString(block_num) \o " doesn't have prev hash"
            ELSE IF is_genesis /\ b.prev_hash # None
            THEN "Genesis block " \o ToString(block_num)
                     \o " should not have prev hash"
            ELSE IF /\ block_num # ChainLen(chain)
                    /\ prev_block_hash # None
                    /\ prev_block_hash # b.hash
            THEN "Block " \o ToString(block_num + 1)
                     \o " prev hash doesn't match Block "
                     \o ToString(block_num) \o " hash"
            ELSE ValidateFromNoVerify(chain, i + 1, block_num - 1, b.prev_hash)

\* The loop of validate without the check of the genesis block's prev_hash.
RECURSIVE ValidateFromNoGenesisCheck(_, _, _, _)
ValidateFromNoGenesisCheck(chain, i, block_num, prev_block_hash) ==
    IF i > Len(chain)
    THEN "Ok"
    ELSE LET b == chain[i]
             is_genesis == block_num = 1
         IN IF ~verify(b)
            THEN "Block " \o ToString(block_num) \o " has no hash"
            ELSE IF ~is_genesis /\ b.prev_hash = None
            THEN "Block " \o ToString(block_num) \o " doesn't have prev hash"
            ELSE IF /\ block_num # ChainLen(chain)
                    /\ prev_block_hash # None
                    /\ prev_block_hash[1] # b.hash[1]
            THEN "Block " \o ToString(block_num + 1)
                     \o " prev hash doesn't match Block "
                     \o ToString(block_num) \o " hash"
            ELSE ValidateFromNoGenesisCheck(chain, i + 1, block_num - 1, b.prev_hash)

\* The loop of validate comparing the link with the block's prev_hash.
RECURSIVE ValidateFromLinkPrevHash(_, _, _, _)
ValidateFromLinkPrevHash(chain, i, block_num, prev_block_hash) ==
    IF i > Len(chain)
    THEN "Ok"
    ELSE LET b == chain[i]
             is_genesis == block_num = 1
         IN IF ~verify(b)
            THEN "Block " \o ToString(block_num) \o " has no hash"
            ELSE IF ~is_genesis /\ b.prev_hash = None
            THEN "Block " \o ToString(block_num) \o " doesn't have prev hash"
            ELSE IF is_genesis /\ b.prev_hash # None
            THEN "Genesis block " \o ToString(block_num)
                     \o " should not have prev hash"
            ELSE IF /\ block_num # ChainLen(chain)
                    /\ prev_block_hash # None
                    /\ prev_block_hash # b.prev_hash
            THEN "Block " \o ToString(block_num + 1)
                     \o " prev hash doesn't match Block "
                     \o ToString(block_num) \o " hash"
            ELSE ValidateFromLinkPrevHash(chain, i + 1, block_num - 1, b.prev_hash)

\* The loop of validate without the comparison of the link.
RECURSIVE ValidateFromNoLink(_, _, _, _)
ValidateFromNoLink(chain, i, block_num, prev_block_hash) ==
    IF i > Len(chain)
    THEN "Ok"
    ELSE LET b == chain[i]
             is_genesis == block_num = 1
         IN IF ~verify(b)
            THEN "Block " \o ToString(block_num) \o " has no hash"
            ELSE IF ~is_genesis /\ b.prev_hash = None
            THEN "Block " \o ToString(block_num) \o " doesn't have prev hash"
            ELSE IF is_genesis /\ b.prev_hash # None
            THEN "Genesis block " \o ToString(block_num)
                     \o " should not have prev hash"
            ELSE ValidateFromNoLink(chain, i + 1, block_num - 1, b.prev_hash)

\* The loop of Blockchain::validate from position i of the iteration on.
RECURSIVE ValidateFrom(_, _, _, _)
ValidateFrom(chain, i, block_num, prev_block_hash) ==
    IF i > Len(chain)
    THEN "Ok"
    ELSE LET b == chain[i]
             is_genesis == block_num = 1
         IN IF ~verify(b)
            THEN "Block " \o ToString(block_num) \o " has no hash"
            ELSE IF ~is_genesis /\ b.prev_hash = None
            THEN "Block " \o ToString(block_num) \o " doesn't have prev hash"
            ELSE IF is_genesis /\ b.prev_hash # None
            THEN "Genesis block " \o ToString(block_num)
                     \o " should not have prev hash"
            ELSE IF /\ block_num # ChainLen(chain)
                    /\ prev_block_hash # None
                    /\ prev_block_hash[1] # b.hash[1]
            THEN "Block " \o ToString(block_num + 1)
                     \o " prev hash doesn't match Block "
                     \o ToString(block_num) \o " hash"
            ELSE ValidateFrom(chain, i + 1, block_num - 1, b.prev_hash)

validate(chain) == ValidateFrom(chain, 1, ChainLen(chain), None)

(***************************************************************************)
(* The state machine: a caller builds a block and submits it.              *)
(***************************************************************************)
\* last: the operation called last (op), what it returned (ret) and the chain
\* and account table it was called on.
NoCall == [op |-> "none", ret |-> "none", blocks |-> << >>, accounts |-> << >>]

Panicked == last.ret = "panic"

\* The transactions a caller builds.
Datas ==
    {CreateAccount(a) : a \in AccountIds}
    \cup {MintInitialSupply("satoshi", n) : n \in Amounts}
    \cup {Transfer("bob", 1)}

Transactions ==
    {TransactionNew(d, IF d.kind = "Transfer" THEN Some("alice") ELSE None) :
        d \in Datas}

\* The values a caller passes as prev_hash: None, the hash of the last block
\* (get_last_block_hash) or the hash of an older block of the chain.
PrevHashes ==
    {None} \cup {Some(BlockHash(blocks[i])) : i \in 1 .. Len(blocks)}

Init ==
    /\ blocks = << >>
    /\ accounts = << >>
    /\ transaction_pool = << >>
    /\ overflow_checks \in BOOLEAN
    /\ block = None
    /\ last = NoCall
    /\ tampered = FALSE
    /\ appended = [n |-> 0, hash |-> None]

\* The caller's block becomes b.  Building stops once the chain is max_chain
\* long, after a panic and after a block of the chain was tampered with.
Build(b, max_chain) ==
    /\ ~Panicked
    /\ ~tampered
    /\ ChainLen(blocks) < max_chain
    /\ block' = Some(b)
    /\ last' = NoCall
    /\ UNCHANGED <<blocks, accounts, transaction_pool, overflow_checks, tampered,
                   appended>>

\* Block::new(prev_hash)
NewBlock(max_chain) == \E p \in PrevHashes : Build(BlockNew(p), max_chain)

\* Block::default()
DefaultBlock(max_chain) == Build(BlockDefault, max_chain)

\* block.set_nonce(n)
SetNonce(max_chain) ==
    /\ block # None
    /\ \E n \in Nonces : Build(set_nonce(block[1], n), max_chain)

\* block.add_transaction(tx), tx one of txs
AddTransaction(txs, max_txs, max_chain) ==
    /\ block # None
    /\ Len(block[1].transactions) < max_txs
    /\ \E tx \in txs : Build(add_transaction(block[1], tx), max_chain)

\* bc.append_block(block.clone())
AppendBlock(max_chain) ==
    /\ ~Panicked
    /\ ~tampered
    /\ block # None
    /\ ChainLen(blocks) < max_chain
    /\ LET r == AppendBlockResult(blocks, accounts, block[1], overflow_checks)
       IN /\ blocks' = r.blocks
          /\ accounts' = r.accounts
          /\ last' = [op |-> "append_block", ret |-> r.ret,
                      blocks |-> blocks, accounts |-> accounts]
          /\ appended' = IF r.ret = "Ok"
                         THEN [n |-> appended.n + 1, hash |-> block[1].hash]
                         ELSE appended
    /\ UNCHANGED <<transaction_pool, overflow_checks, block, tampered>>

Next ==
    \/ NewBlock(MaxChain)
    \/ DefaultBlock(MaxChain)
    \/ SetNonce(MaxChain)
    \/ AddTransaction(Transactions, MaxTxs, MaxChain)
    \/ AppendBlock(MaxChain)

Spec == Init /\ [][Next]_vars

(***************************************************************************)
(* Writes of a block's fields that do not go through a mutator.            *)
(***************************************************************************)
\* block.transactions.push(tx) on the caller's block (block.rs, test_hash):
\* the stored hash stays as it was.
RawPush ==
    /\ block # None
    /\ Len(block[1].transactions) < MaxTxs
    /\ \E tx \in Transactions :
          Build([block[1] EXCEPT !.transactions = Append(@, tx)], MaxChain)

NextRaw == Next \/ RawPush

SpecRaw == Init /\ [][NextRaw]_vars

\* The values written over a field of a block of the chain.
StoredHashes ==
    {None, Some(BlockHash(BlockDefault))}
    \cup {blocks[i].hash : i \in 1 .. Len(blocks)}

\* The block b with one field written in place (blockchain.rs, is_validate:
\* block.transactions[1].data = ...): the stored hash, the data of one
\* transaction, or prev_hash.  The write changes the field.
Tamperings(b) ==
    {[b EXCEPT !.hash = h] : h \in StoredHashes \ {b.hash}}
    \cup ({[b EXCEPT !.transactions[i].data = d] :
              i \in 1 .. Len(b.transactions), d \in Datas} \ {b})
    \cup {[b EXCEPT !.prev_hash = p] : p \in PrevHashes \ {b.prev_hash}}

\* One block of the chain is written in place, right after the append_block
\* that made the chain.
Tamper ==
    /\ ~tampered
    /\ last.op = "append_block" /\ last.ret = "Ok"
    /\ \E i \in 1 .. Len(blocks) : \E b \in Tamperings(blocks[i]) :
          blocks' = [blocks EXCEPT ![i] = b]
    /\ tampered' = TRUE
    /\ last' = [op |-> "tamper", ret |-> "none",
                blocks |-> blocks, accounts |-> accounts]
    /\ UNCHANGED <<accounts, transaction_pool, overflow_checks, block, appended>>

\* The transactions of the chains that are validated: the blocks are short,
\* the chains long.
ChainTransactions ==
    {TransactionNew(CreateAccount(a), None) : a \in AccountIds}
    \cup {TransactionNew(MintInitialSupply("satoshi", 1), None)}

\* The block b with its content changed (the nonce, prev_hash or the data of
\* one transaction) and its stored hash recomputed.
Rehashed(b) ==
    {update_hash(c) :
        c \in ({[b EXCEPT !.nonce = n] : n \in 0 .. MaxNonce}
               \cup {[b EXCEPT !.prev_hash = p] : p \in PrevHashes}
               \cup {[b EXCEPT !.transactions[i].data = d] :
                        i \in 1 .. Len(b.transactions),
                        d \in {t.data : t \in ChainTransactions}})
              \ {b}}

\* One block of the chain gets another content and the hash of that content,
\* right after the append_block that made the chain.
TamperRehash ==
    /\ ~tampered
    /\ last.op = "append_block" /\ last.ret = "Ok"
    /\ \E i \in 1 .. Len(blocks) : \E b \in Rehashed(blocks[i]) :
          blocks' = [blocks EXCEPT ![i] = b]
    /\ tampered' = TRUE
    /\ last' = [op |-> "tamper_rehash", ret |-> "none",
                blocks |-> blocks, accounts |-> accounts]
    /\ UNCHANGED <<accounts, transaction_pool, overflow_checks, block, appended>>

\* bc.validate(), called after an append_block or after a tampering
Validate ==
    /\ last.op \in {"append_block", "tamper", "tamper_rehash"}
    /\ ~Panicked
    /\ last' = [op |-> "validate", ret |-> validate(blocks),
                blocks |-> blocks, accounts |-> accounts]
    /\ UNCHANGED <<blocks, accounts, transaction_pool, overflow_checks, block,
                   tampered, appended>>

NextTamper ==
    \/ NewBlock(MaxValidated)
    \/ SetNonce(MaxValidated)
    \/ AddTransaction(ChainTransactions, MaxValidatedTxs, MaxValidated)
    \/ AppendBlock(MaxValidated)
    \/ Tamper
    \/ TamperRehash
    \/ Validate

SpecTamper == Init /\ [][NextTamper]_vars

(***************************************************************************)
(* A caller that seeds every block with get_last_block_hash().             *)
(***************************************************************************)
\* let mut block = Block::new(bc.get_last_block_hash())
NewBlockOnHead == Build(BlockNew(get_last_block_hash(blocks)), MaxValidated)

\* bc.append_block(block.clone()) of a block whose prev_hash is what
\* get_last_block_hash() returns now
AppendBlockOnHead ==
    /\ block # None
    /\ block[1].prev_hash = get_last_block_hash(blocks)
    /\ AppendBlock(MaxValidated)

NextOnHead ==
    \/ NewBlockOnHead
    \/ SetNonce(MaxValidated)
    \/ AddTransaction(ChainTransactions, MaxValidatedTxs, MaxValidated)
    \/ AppendBlockOnHead
    \/ Validate

SpecOnHead == Init /\ [][NextOnHead]_vars

(***************************************************************************)
(* A Block on its own: constructor, mutators, and writes of its fields     *)
(* from inside the crate that do not go through a mutator.                 *)
(***************************************************************************)
\* The transactions put in the block: Transaction::new with two data and
\* two values of from.
BlockTransactions ==
    {TransactionNew(CreateAccount("alice"), None),
     TransactionNew(CreateAccount("alice"), Some("bob")),
     TransactionNew(MintInitialSupply("satoshi", 1), None)}

\* The values passed as prev_hash and written over it.
BlockPrevHashes ==
    {None, Some(BlockHash(BlockDefault)), Some(BlockHash(BlockNew(None)))}

\* The caller's block becomes b by the operation op.
BlockStep(b, op) ==
    /\ block' = Some(b)
    /\ last' = [op |-> op, ret |-> "none", blocks |-> blocks,
                accounts |-> accounts]
    /\ UNCHANGED <<blocks, accounts, transaction_pool, overflow_checks, tampered,
                   appended>>

\* let block = Block::new(prev_hash)
BlockNewCall == \E p \in BlockPrevHashes : BlockStep(BlockNew(p), "new")

\* block.set_nonce(n)
BlockSetNonce ==
    /\ block # None
    /\ \E n \in 0 .. MaxNonce : BlockStep(set_nonce(block[1], n), "set_nonce")

\* block.add_transaction(tx)
BlockAddTransaction ==
    /\ block # None
    /\ Len(block[1].transactions) < MaxTxs
    /\ \E tx \in BlockTransactions :
          BlockStep(add_transaction(block[1], tx), "add_transaction")

\* The block b with one field written: the nonce, prev_hash, the transaction
\* list (a push, a pop, one transaction replaced) or the stored hash (to
\* None, to the hash of another block, to the recomputed hash).
RawWrites(b) ==
    {[b EXCEPT !.nonce = n] : n \in 0 .. MaxNonce}
    \cup {[b EXCEPT !.prev_hash = p] : p \in BlockPrevHashes}
    \cup {[b EXCEPT !.transactions = Append(@, tx)] :
             tx \in IF Len(b.transactions) < MaxTxs THEN BlockTransactions ELSE {}}
    \cup {[b EXCEPT !.transactions = SubSeq(@, 1, Len(@) - 1)] :
             x \in IF Len(b.transactions) > 0 THEN {0} ELSE {}}
    \cup {[b EXCEPT !.transactions[i] = tx] :
             i \in 1 .. Len(b.transactions), tx \in BlockTransactions}
    \cup {[b EXCEPT !.hash = h] :
             h \in {None, Some(BlockHash(BlockDefault)), Some(BlockHash(b))}}

\* One field of the block is written in place and the write changes it.
RawWrite ==
    /\ block # None
    /\ \E b \in RawWrites(block[1]) \ {block[1]} : BlockStep(b, "raw")

NextBlock ==
    \/ BlockNewCall
    \/ BlockSetNonce
    \/ BlockAddTransaction
    \/ RawWrite

SpecBlock == Init /\ [][NextBlock]_vars

(***************************************************************************)
(* Properties                                                              *)
(***************************************************************************)
Returned == last.op = "append_block" /\ last.ret # "panic"
Failed == Returned /\ last.ret # "Ok"
Accepted == Returned /\ last.ret = "Ok"
Submitted == block[1]
Kind(b, i) == b.transactions[i].data.kind
To(b, i) == b.transactions[i].data.to
HasMint(b) ==
    \E i \in 1 .. Len(b.transactions) : Kind(b, i) = "MintInitialSupply"

\* C1: when append_block returns an error, the account table is the one the
\* call started from (same ids, same balances), also when earlier
\* transactions of the block had executed.
C1_Atomicity == Failed => accounts = last.accounts

\* The third transaction of <<create alice, create bob, create bob>> failed
\* and neither alice nor bob is in the table.
C1_Witness ==
    /\ Failed
    /\ Len(Submitted.transactions) = 3
    /\ Kind(Submitted, 1) = "CreateAccount" /\ To(Submitted, 1) = "alice"
    /\ Kind(Submitted, 2) = "CreateAccount" /\ To(Submitted, 2) = "bob"
    /\ Kind(Submitted, 3) = "CreateAccount" /\ To(Submitted, 3) = "bob"
    /\ last.ret = "Error during tx execution: Account id already exist: bob"
    /\ DOMAIN accounts = {}

\* C2: the oldest block of the chain has prev_hash = None and every other
\* block has prev_hash = Some(h), h the hash of the block before it.
C2_ChainLinked ==
    /\ Len(blocks) > 0 => blocks[Len(blocks)].prev_hash = None
    /\ \A i \in 1 .. Len(blocks) - 1 :
          blocks[i].prev_hash = Some(BlockHash(blocks[i + 1]))

\* C3: append_block returns an error for a block without transactions and
\* for a block whose stored hash is absent or is not the hash of its
\* (prev_hash, nonce, transactions).
C3_RejectsEmptyAndForged ==
    (/\ last.op = "append_block"
     /\ \/ Len(Submitted.transactions) = 0
        \/ Submitted.hash = None
        \/ Submitted.hash # Some(BlockHash(Submitted)))
    => /\ Failed
       /\ blocks = last.blocks

\* A block with a stale stored hash whose only transaction would have
\* executed was rejected.
C3_Witness ==
    /\ last.op = "append_block"
    /\ Len(Submitted.transactions) = 1
    /\ Kind(Submitted, 1) = "CreateAccount"
    /\ To(Submitted, 1) \notin DOMAIN last.accounts
    /\ Submitted.hash # None
    /\ Submitted.hash # Some(BlockHash(Submitted))
    /\ last.ret = "Block has invalid hash"

\* C4: a block with a MintInitialSupply is accepted only by an empty chain,
\* an empty chain never rejects a mint for not being the genesis block, and
\* no block of the chain but the oldest holds a MintInitialSupply.
C4_MintOnlyInGenesis ==
    /\ (Accepted /\ HasMint(Submitted)) => ChainLen(last.blocks) = 0
    /\ (Returned /\ ChainLen(last.blocks) = 0) =>
          last.ret # "Error during tx execution: Initial supply can't be minted in initial block"
    /\ \A i \in 1 .. Len(blocks) - 1 : ~HasMint(blocks[i])

\* A chain whose genesis block minted rejected a later block for its mint.
C4_Witness ==
    /\ Returned
    /\ ChainLen(last.blocks) >= 1
    /\ HasMint(blocks[Len(blocks)])
    /\ HasMint(Submitted)
    /\ last.ret = "Error during tx execution: Initial supply can't be minted in initial block"

\* C5: on a chain that validate() accepts, one block written in place (its
\* stored hash, the data of one transaction or its prev_hash) without its
\* stored hash being recomputed makes validate() return an error.
C5_TamperDetected ==
    (last.op = "tamper" /\ validate(last.blocks) = "Ok")
    => validate(blocks) # "Ok"

\* The data of a transaction of the middle block of a valid chain of three
\* blocks was written over.
C5_Witness ==
    /\ last.op = "tamper"
    /\ validate(last.blocks) = "Ok"
    /\ Len(blocks) = 3
    /\ blocks[1] = last.blocks[1]
    /\ blocks[3] = last.blocks[3]
    /\ blocks[2].hash = last.blocks[2].hash
    /\ blocks[2].prev_hash = last.blocks[2].prev_hash
    /\ blocks[2].transactions # last.blocks[2].transactions

\* C6: get_last_block_hash() is None exactly when no append_block has
\* returned Ok, and is otherwise the stored hash of the block of the last
\* append_block that returned Ok.
C6_LastBlockHash ==
    /\ (get_last_block_hash(blocks) = None) <=> (appended.n = 0)
    /\ appended.n > 0 => get_last_block_hash(blocks) = appended.hash

\* After an accepted block a second call failed.
C6_Witness ==
    /\ Failed
    /\ appended.n = 1
    /\ Submitted.hash # appended.hash
    /\ get_last_block_hash(blocks) = appended.hash

\* C7: an append_block that returns Ok makes the chain one longer, with the
\* submitted block as head and the blocks it had in their order; one that
\* returns an error leaves the chain as it was.
C7_AppendOnly ==
    /\ Accepted =>
          /\ ChainLen(blocks) = ChainLen(last.blocks) + 1
          /\ ChainHead(blocks) = Some(Submitted)
          /\ \A i \in 1 .. Len(last.blocks) : blocks[i + 1] = last.blocks[i]
    /\ Failed => blocks = last.blocks

\* A second block was accepted.
C7_Witness == Accepted /\ ChainLen(last.blocks) = 1 /\ ChainLen(blocks) = 2

\* The sum of the amounts minted to account a by the first n transactions.
RECURSIVE MintSum(_, _, _)
MintSum(txs, a, n) ==
    IF n = 0
    THEN 0
    ELSE MintSum(txs, a, n - 1)
         + (IF txs[n].data.kind = "MintInitialSupply" /\ txs[n].data.to = a
            THEN txs[n].data.amount ELSE 0)

\* The ids of the CreateAccount transactions of b before position i.
CreatedBefore(b, i) ==
    {To(b, j) : j \in {k \in 1 .. i - 1 : Kind(b, k) = "CreateAccount"}}

\* C8: after a genesis block is accepted by an empty ledger, the accounts are
\* those it created and each has the sum of the amounts the block minted to
\* it as its balance, when that sum fits the balance type.
C8_GenesisMint ==
    (Accepted /\ ChainLen(last.blocks) = 0 /\ DOMAIN last.accounts = {})
    => /\ DOMAIN accounts =
             CreatedBefore(Submitted, Len(Submitted.transactions) + 1)
       /\ \A a \in DOMAIN accounts :
             LET sum == MintSum(Submitted.transactions, a,
                                Len(Submitted.transactions))
             IN sum < BalanceMod => accounts[a].balance = sum

\* create satoshi, mint 1, mint 1 in the genesis block: satoshi holds 2.
C8_Witness ==
    /\ Accepted
    /\ ChainLen(last.blocks) = 0
    /\ Len(Submitted.transactions) = 3
    /\ Kind(Submitted, 2) = "MintInitialSupply"
    /\ Kind(Submitted, 3) = "MintInitialSupply"
    /\ accounts["satoshi"].balance = 2

\* The transactions of b before position i all execute on the table accts
\* of a genesis call: each creates an id not created yet, or mints to an id
\* created before it without overflow.
PrefixRuns(b, i, accts) ==
    \A j \in 1 .. i - 1 :
        \/ /\ Kind(b, j) = "CreateAccount"
           /\ To(b, j) \notin DOMAIN accts \cup CreatedBefore(b, j)
        \/ /\ Kind(b, j) = "MintInitialSupply"
           /\ To(b, j) \in CreatedBefore(b, j)
           /\ MintSum(b.transactions, To(b, j), j) < BalanceMod

\* C9: on an empty chain a block that reaches a mint whose target is not in
\* the table at that moment (a later CreateAccount does not count) fails with
\* "Error during tx execution: Invalid account" and the table is unchanged.
C9_MintBeforeCreate ==
    (/\ last.op = "append_block"
     /\ ChainLen(last.blocks) = 0
     /\ Submitted.hash = Some(BlockHash(Submitted))
     /\ \E i \in 1 .. Len(Submitted.transactions) :
           /\ Kind(Submitted, i) = "MintInitialSupply"
           /\ To(Submitted, i) \notin
                 DOMAIN last.accounts \cup CreatedBefore(Submitted, i)
           /\ PrefixRuns(Submitted, i, last.accounts))
    => /\ last.ret = "Error during tx execution: Invalid account"
       /\ accounts = last.accounts

\* mint to satoshi, then create satoshi: rejected, the table stays empty.
C9_Witness ==
    /\ last.op = "append_block"
    /\ ChainLen(last.blocks) = 0
    /\ Len(Submitted.transactions) = 2
    /\ Kind(Submitted, 1) = "MintInitialSupply" /\ To(Submitted, 1) = "satoshi"
    /\ Kind(Submitted, 2) = "CreateAccount" /\ To(Submitted, 2) = "satoshi"
    /\ last.ret = "Error during tx execution: Invalid account"
    /\ DOMAIN accounts = {}

\* C10: an accepted block creates no id that was in the table or that an
\* earlier transaction of it created, and no append_block changes the record
\* of an account that was in the table.
C10_AccountsUnique ==
    /\ Accepted =>
          \A i \in 1 .. Len(Submitted.transactions) :
              Kind(Submitted, i) = "CreateAccount" =>
                 To(Submitted, i) \notin
                    DOMAIN last.accounts \cup CreatedBefore(Submitted, i)
    /\ Returned =>
          \A a \in DOMAIN last.accounts :
              a \in DOMAIN accounts /\ accounts[a] = last.accounts[a]

\* CreateAccount(satoshi) on a ledger where satoshi holds a balance: rejected,
\* the balance stays.
C10_Witness ==
    /\ Failed
    /\ ChainLen(last.blocks) >= 1
    /\ "satoshi" \in DOMAIN last.accounts
    /\ last.accounts["satoshi"].balance > 0
    /\ Len(Submitted.transactions) = 1
    /\ Kind(Submitted, 1) = "CreateAccount" /\ To(Submitted, 1) = "satoshi"
    /\ last.ret = "Error during tx execution: Account id already exist: satoshi"
    /\ accounts["satoshi"].balance = last.accounts["satoshi"].balance

HasTransfer(b) ==
    \E i \in 1 .. Len(b.transactions) : Kind(b, i) = "Transfer"

\* C11: append_block rejects every block that holds a Transfer and leaves
\* the table as it was; a block whose first transaction is a Transfer fails
\* with the unknown-transaction error; no block of the chain holds a Transfer.
C11_TransferRejected ==
    /\ (Returned /\ HasTransfer(Submitted)) =>
          /\ Failed
          /\ accounts = last.accounts
          /\ blocks = last.blocks
    /\ (/\ Returned
        /\ Submitted.hash = Some(BlockHash(Submitted))
        /\ Len(Submitted.transactions) > 0
        /\ Kind(Submitted, 1) = "Transfer")
       => last.ret = "Error during tx execution: Unknown transaction"
    /\ \A i \in 1 .. Len(blocks) : ~HasTransfer(blocks[i])

\* create alice, then a Transfer: rejected for the Transfer, alice is gone.
C11_Witness ==
    /\ Failed
    /\ Len(Submitted.transactions) = 2
    /\ Kind(Submitted, 1) = "CreateAccount" /\ To(Submitted, 1) = "alice"
    /\ Kind(Submitted, 2) = "Transfer"
    /\ last.ret = "Error during tx execution: Unknown transaction"
    /\ "alice" \notin DOMAIN accounts

\* C12: append_block returns Ok or an error value for every block and never
\* aborts, a genesis block whose mints overflow the balance included.
C12_NeverAborts == last.op = "append_block" => last.ret # "panic"

\* C13: an account id that is in the table stays in it over every step,
\* an append_block that fails and rolls back included.
C13_AccountsNeverDeleted ==
    [][\A a \in DOMAIN accounts : a \in DOMAIN accounts']_vars

\* A block that created alice and then failed was rolled back on a table
\* that held accounts: they are all still there.
C13_Witness ==
    /\ Failed
    /\ DOMAIN last.accounts # {}
    /\ Len(Submitted.transactions) >= 2
    /\ Kind(Submitted, 1) = "CreateAccount"
    /\ To(Submitted, 1) \notin DOMAIN last.accounts
    /\ last.ret # "Block has invalid hash"
    /\ DOMAIN accounts = DOMAIN last.accounts

\* What transaction i of b answers when the transactions before it have
\* executed on the table accts: "Ok" or its error (an overflow apart).
TxError(b, i, accts, is_genesis) ==
    LET present == DOMAIN accts \cup CreatedBefore(b, i)
    IN IF Kind(b, i) = "CreateAccount"
       THEN IF To(b, i) \in present
            THEN "Account id already exist: " \o To(b, i)
            ELSE "Ok"
       ELSE IF Kind(b, i) = "MintInitialSupply"
       THEN IF ~is_genesis
            THEN "Initial supply can't be minted in initial block"
            ELSE IF To(b, i) \notin present THEN "Invalid account" ELSE "Ok"
       ELSE "Unknown transaction"

\* The positions of b whose transaction fails.
Failing(b, accts, is_genesis) ==
    {i \in 1 .. Len(b.transactions) : TxError(b, i, accts, is_genesis) # "Ok"}

\* C16: a returning append_block of a block with a valid hash and at least
\* one transaction answers Ok when no transaction fails and otherwise
\* "Error during tx execution: " followed by the error of the first failing
\* transaction in block order: no later transaction has a say.
C16_FirstFailure ==
    (/\ Returned
     /\ Submitted.hash = Some(BlockHash(Submitted))
     /\ Len(Submitted.transactions) > 0)
    => LET F == Failing(Submitted, last.accounts, ChainLen(last.blocks) = 0)
           first == CHOOSE i \in F : \A j \in F : i <= j
       IN IF F = {}
          THEN last.ret = "Ok"
          ELSE last.ret = "Error during tx execution: "
                  \o TxError(Submitted, first, last.accounts,
                             ChainLen(last.blocks) = 0)

\* create alice, create alice, Transfer: the answer is the error of the
\* second transaction, not that of the third.
C16_Witness ==
    /\ Failed
    /\ Len(Submitted.transactions) = 3
    /\ Kind(Submitted, 1) = "CreateAccount" /\ To(Submitted, 1) = "alice"
    /\ Kind(Submitted, 2) = "CreateAccount" /\ To(Submitted, 2) = "alice"
    /\ Kind(Submitted, 3) = "Transfer"
    /\ last.ret = "Error during tx execution: Account id already exist: alice"

\* The sum of the balances of the table accts.
RECURSIVE SupplyOf(_, _)
SupplyOf(accts, ids) ==
    IF ids = {}
    THEN 0
    ELSE LET a == CHOOSE x \in ids : TRUE
         IN accts[a].balance + SupplyOf(accts, ids \ {a})

TotalSupply(accts) == SupplyOf(accts, DOMAIN accts)

\* C18: once the chain holds a block, no step changes the balance of an
\* account of the table, an account that enters the table holds 0, and the
\* total supply stays what it was.
C18_BalancesFrozen ==
    [][ChainLen(blocks) >= 1 =>
          /\ \A a \in DOMAIN accounts :
                /\ a \in DOMAIN accounts'
                /\ accounts'[a].balance = accounts[a].balance
          /\ \A a \in DOMAIN accounts' \ DOMAIN accounts :
                accounts'[a].balance = 0
          /\ TotalSupply(accounts') = TotalSupply(accounts)]_vars

\* After a genesis block that minted, a second block created an account.
C18_Witness ==
    /\ Accepted
    /\ ChainLen(last.blocks) = 1
    /\ TotalSupply(last.accounts) > 0
    /\ DOMAIN accounts # DOMAIN last.accounts
    /\ TotalSupply(accounts) = TotalSupply(last.accounts)

\* The table got by executing the blocks k, k - 1, ..., 1 of the chain on
\* accts, the oldest block of the chain as the genesis block.
RECURSIVE ReplayFrom(_, _, _, _)
ReplayFrom(chain, k, accts, checks) ==
    IF k = 0
    THEN accts
    ELSE ReplayFrom(chain, k - 1,
                    ExecuteFrom(chain[k].transactions, 1, accts,
                                k = Len(chain), checks).accounts,
                    checks)

\* C19: the account table is the one got by executing, oldest block first,
\* the transactions of the blocks of the chain on an empty table.
C19_TableFromChain ==
    accounts = ReplayFrom(blocks, Len(blocks), << >>, overflow_checks)

\* The same, in the states where no call has panicked.
C19_Probe == ~Panicked => C19_TableFromChain

\* C14: a block verifies right after Block::new and after every set_nonce
\* and add_transaction, whatever was done to it before; and a block that
\* verifies no longer does after one write of its nonce, prev_hash,
\* transaction list or stored hash that does not go through a mutator.
C14_BlockSelfConsistent ==
    [][/\ last'.op \in {"new", "set_nonce", "add_transaction"}
          => verify(block'[1])
       /\ (last'.op = "raw" /\ block # None /\ verify(block[1]))
          => ~verify(block'[1])]_vars

\* A block with a nonce set and a transaction added got a second transaction
\* by a push: its stored hash is still that of the block without it.
C14_Witness ==
    /\ last.op = "raw"
    /\ block[1].nonce = 1
    /\ Len(block[1].transactions) = 2
    /\ block[1].hash =
          Some(BlockHash([block[1] EXCEPT
                             !.transactions = SubSeq(@, 1, 1)]))
    /\ ~verify(block[1])

\* The number validate() gives the block at position i of the chain.
BlockNum(chain, i) == Len(chain) - i + 1

\* The conditions of a valid chain: every block self-verifies, the oldest
\* block has no prev_hash, every other block has one and it is the stored
\* hash of the block one position closer to genesis.
ChainConsistent(chain) ==
    \A i \in 1 .. Len(chain) :
       /\ chain[i].hash = Some(BlockHash(chain[i]))
       /\ i = Len(chain) => chain[i].prev_hash = None
       /\ i < Len(chain) =>
             /\ chain[i].prev_hash # None
             /\ chain[i].prev_hash = chain[i + 1].hash

\* What is wrong with the block at position i, in the order of the checks:
\* its hash, its prev_hash, the link of the next newer block to it.
Inconsistency(chain, i) ==
    LET b == chain[i]
        n == BlockNum(chain, i)
    IN IF b.hash # Some(BlockHash(b))
       THEN "Block " \o ToString(n) \o " has no hash"
       ELSE IF i < Len(chain) /\ b.prev_hash = None
       THEN "Block " \o ToString(n) \o " doesn't have prev hash"
       ELSE IF i = Len(chain) /\ b.prev_hash # None
       THEN "Genesis block " \o ToString(n) \o " should not have prev hash"
       ELSE IF i > 1 /\ chain[i - 1].prev_hash # b.hash
       THEN "Block " \o ToString(n + 1) \o " prev hash doesn't match Block "
               \o ToString(n) \o " hash"
       ELSE "Ok"

\* The first inconsistency from the newest block to the oldest.
FirstInconsistency(chain) ==
    LET F == {i \in 1 .. Len(chain) : Inconsistency(chain, i) # "Ok"}
    IN IF F = {}
       THEN "Ok"
       ELSE Inconsistency(chain, CHOOSE i \in F : \A j \in F : i <= j)

\* C15: validate() returns Ok exactly on the chains (the empty one included)
\* where every block self-verifies, the oldest block has prev_hash None and
\* every other block has as prev_hash the stored hash of the block before
\* it; on the others it returns the error of the first inconsistency met
\* from the newest block to the oldest.
C15_ValidateExact ==
    last.op = "validate" =>
       /\ (last.ret = "Ok") <=> ChainConsistent(blocks)
       /\ last.ret = FirstInconsistency(blocks)

\* A chain of three blocks that all self-verify and have the prev_hash their
\* place asks for, the newest linked to another block than the second.
C15_Witness ==
    /\ last.op = "validate"
    /\ Len(blocks) = 3
    /\ \A i \in 1 .. 3 : verify(blocks[i])
    /\ blocks[3].prev_hash = None
    /\ blocks[2].prev_hash = blocks[3].hash
    /\ last.ret = "Block 3 prev hash doesn't match Block 2 hash"

\* C17: when every block is built on the value of get_last_block_hash() and
\* submitted while that value is current, validate() returns Ok after any
\* sequence of append_block calls, accepted or rejected.
C17_HonestChainValid ==
    /\ validate(blocks) = "Ok"
    /\ last.op = "validate" => last.ret = "Ok"

\* validate() has answered on a chain of three blocks, two of them linked.
C17_Witness ==
    /\ last.op = "validate"
    /\ last.ret = "Ok"
    /\ Len(blocks) = 3
    /\ blocks[1].prev_hash = blocks[2].hash
    /\ blocks[2].prev_hash = blocks[3].hash

\* C20: on a chain of two or more blocks that validate() accepts, a block
\* other than the head that gets another content (nonce, prev_hash or a
\* transaction) and the hash of that content self-verifies, the next newer
\* block no longer links to it, and validate() returns an error.
C20_RehashDetected ==
    (/\ last.op = "tamper_rehash"
     /\ Len(last.blocks) >= 2
     /\ validate(last.blocks) = "Ok"
     /\ blocks[1] = last.blocks[1])
    => /\ validate(blocks) # "Ok"
       /\ \E i \in 2 .. Len(blocks) :
             /\ blocks[i] # last.blocks[i]
             /\ verify(blocks[i])
             /\ blocks[i - 1].prev_hash # blocks[i].hash

\* The middle block of a valid chain of three got another nonce and the
\* hash that goes with it.
C20_Witness ==
    /\ last.op = "tamper_rehash"
    /\ Len(blocks) = 3
    /\ validate(last.blocks) = "Ok"
    /\ blocks[1] = last.blocks[1]
    /\ blocks[3] = last.blocks[3]
    /\ blocks[2].nonce # last.blocks[2].nonce
    /\ verify(blocks[2])
    /\ validate(blocks) = "Block 3 prev hash doesn't match Block 2 hash"
====
